---- MODULE Spec2Model ----
(***************************************************************************)
(* Model of forward-dll                                                    *)
(* (src/forward-dll/src/lib.rs, src/forward-dll/src/utils.rs):             *)
(*   - DllForwarder::forward_all, step by step;                            *)
(*   - the generated entry points (define_function!) with their resolver   *)
(*     default_jumper and the fallback exit_fn, one process per thread;    *)
(*   - the OS loader as seen through LoadLibraryA / GetProcAddress /       *)
(*     FreeLibrary: a load count and the base the image is mapped at.      *)
(*   - the build-time generation: forward_dll, forward_dll_with_dev_path,  *)
(*     forward_dll_with_exports, forward_dll_impl and the export reader,   *)
(*     and derive_forward_module (src/forward-dll-derive/src/lib.rs).      *)
(***************************************************************************)
EXTENDS Integers, FiniteSets, Sequences, TLC

\* ------------------------------------------------------------- bounds
\* N of DllForwarder<N>: the number of exports / slots.
NSlots == 2
\* Threads that may invoke generated entry points concurrently.
NThreads == 2
Slots == 1..NSlots
Threads == 1..NThreads
\* Base addresses the loader may map the target image at: two, so that a
\* remapped image can lie elsewhere than before.
Bases == {1, 2}

\* target_function_names[i]: the i-th export name, written as its index.
target_function_names == [i \in Slots |-> i]

\* exit_fn as usize: an address inside the forwarding module itself.
exit_fn == 1

\* Distance between two image bases; larger than every symbol offset.
AddrStride == NSlots + 1

VARIABLES
    \* DllForwarder fields
    initialized, module_handle, target_functions_address,
    \* OS loader: load count of the target library held through the
    \* forwarder, base the image is mapped at (0: not mapped), and the names
    \* the target image on disk exports
    libRefs, imageBase, exports,
    \* the thread running forward_all: where it is, the loop index, the
    \* handle in its local `lib` (kept as a value after the reference is
    \* gone), what the last call returned ("none": never, or in progress)
    faPc, faIndex, faLib, faResult,
    \* threads running generated entry points
    tPc, tIndex, tArg, tLib, tRax,
    \* std::process::exit was called
    exited,
    \* history: forward_all has returned Ok; the slots at the start of the
    \* current forward_all call; the LoadLibraryA calls it made; the bases
    \* the image has been mapped at
    okSeen, faSlots0, faLoads, basesSeen,
    \* one generated entry point at instruction level: architecture,
    \* index of the next instruction, registers, stack pointer (in words),
    \* stack memory (word address -> value)
    arch, ip, regs, sp, mem,
    \* history: registers, stack pointer and memory at the entry, the value
    \* each push saved, what default_jumper returned
    regs0, sp0, mem0, pushed, resolverRet,
    \* build-time generation (forward_dll*, derive_forward_module): the
    \* function called, its dll_path argument, the file at the path whose
    \* export table is read, the export list handed to forward_dll_impl,
    \* where the call is, the loop index
    api, dll_path, devFile, exportsArg, lkPc, lkIdx,
    \* forward_dll_impl's locals anonymous_map and anonymous_name_id, the
    \* lines printed to stdout, the text of exports_def (as lines), the files
    \* written, what the call returned, what the derive macro generated
    anonymous_map, anonymous_name_id, stdout, exports_def, filesWritten,
    lkResult, generated

lvars == <<api, dll_path, devFile, exportsArg, lkPc, lkIdx, anonymous_map,
           anonymous_name_id, stdout, exports_def, filesWritten, lkResult,
           generated>>

rvars == <<initialized, module_handle, target_functions_address,
           libRefs, imageBase, exports, faPc, faIndex, faLib, faResult,
           tPc, tIndex, tArg, tLib, tRax, exited,
           okSeen, faSlots0, faLoads, basesSeen>>

fvars == <<rvars, lvars>>

avars == <<arch, ip, regs, sp, mem, regs0, sp0, mem0, pushed, resolverRet>>

vars == <<fvars, avars>>

\* ------------------------------------------------------------ OS loader
\* GetProcAddress(inst, name) wrapped by get_proc_address_by_module:
\* the export's address in the image mapped at inst, or 0 (Err) when the
\* image does not export the name.
get_proc_address(inst, name) ==
    IF name \in exports THEN inst * AddrStride + name ELSE 0

\* LoadLibraryA succeeded: the load count goes up; an unmapped image is
\* mapped at base b, a mapped one stays where it is. The handle is the base.
LoadedBase(b) == IF libRefs = 0 THEN b ELSE imageBase

load_library(b) ==
    /\ libRefs' = libRefs + 1
    /\ imageBase' = LoadedBase(b)
    /\ basesSeen' = basesSeen \cup {LoadedBase(b)}

\* FreeLibrary: the load count goes down; at 0 the image is unmapped.
free_library ==
    /\ libRefs' = libRefs - 1
    /\ imageBase' = IF libRefs = 1 THEN 0 ELSE imageBase
    /\ UNCHANGED basesSeen

\* Mutant of into_raw: the handle is handed over and the reference freed.
into_raw_Releasing ==
    free_library

\* ForeignLibrary::into_raw: mem::forget, the reference is kept.
into_raw ==
    UNCHANGED <<libRefs, imageBase, basesSeen>>

\* ---------------------------------------------------------------- Init
\* forward_dll!: static mut $name = DllForwarder { initialized: false,
\* module_handle: 0, target_functions_address: [0; N], .. }
FwdStart ==
    /\ initialized = FALSE
    /\ module_handle = 0
    /\ libRefs = 0
    /\ imageBase = 0

\* Nobody has called forward_all or an entry point yet.
FwdRest ==
    /\ faPc = "idle"
    /\ faIndex = 0
    /\ faLib = 0
    /\ faResult = "none"
    /\ tPc = [t \in Threads |-> "idle"]
    /\ tIndex = [t \in Threads |-> 0]
    /\ tArg = [t \in Threads |-> 0]
    /\ tLib = [t \in Threads |-> 0]
    /\ tRax = [t \in Threads |-> 0]
    /\ exited = FALSE
    /\ okSeen = FALSE
    /\ faSlots0 = [i \in Slots |-> 0]
    /\ faLoads = 0
    /\ basesSeen = {}

\* No build-time generation is traced.
LinkIdle ==
    /\ api = "none"
    /\ dll_path = <<>>
    /\ devFile = <<>>
    /\ exportsArg = <<>>
    /\ lkPc = "idle"
    /\ lkIdx = 0
    /\ anonymous_map = <<>>
    /\ anonymous_name_id = 0
    /\ stdout = <<>>
    /\ exports_def = <<>>
    /\ filesWritten = {}
    /\ lkResult = "none"
    /\ generated = <<>>

\* No entry point is traced at instruction level.
AsmIdle ==
    /\ arch = "none"
    /\ ip = 0
    /\ regs = <<>>
    /\ sp = 0
    /\ mem = <<>>
    /\ regs0 = <<>>
    /\ sp0 = 0
    /\ mem0 = <<>>
    /\ pushed = <<>>
    /\ resolverRet = 0

FwdInit ==
    /\ FwdStart
    /\ FwdRest
    /\ target_functions_address = [i \in Slots |-> 0]
    /\ exports \in SUBSET Slots

Init == FwdInit /\ AsmIdle /\ LinkIdle

tvars == <<tPc, tIndex, tArg, tLib, tRax>>
dvars == <<initialized, module_handle, target_functions_address>>
osvars == <<libRefs, imageBase, basesSeen>>

\* ---------------------------------------------------------- forward_all
\* The caller enters forward_all.
FA_Call ==
    /\ ~exited
    /\ UNCHANGED <<avars, lvars>>
    /\ faPc = "idle"
    /\ faPc' = "check"
    /\ faResult' = "none"
    /\ faSlots0' = target_functions_address
    /\ faLoads' = 0
    /\ faIndex' = 0
    /\ faLib' = 0
    /\ UNCHANGED <<dvars, osvars, exports, tvars, exited, okSeen>>

\* Mutant of FA_Check: the initialized check is missing.
FA_Check_NoGuard ==
    /\ ~exited
    /\ UNCHANGED <<avars, lvars>>
    /\ faPc = "check"
    /\ faPc' = "load"
    /\ faResult' = "none"
    /\ UNCHANGED <<dvars, osvars, exports, tvars, exited, okSeen,
                   faSlots0, faLoads, faIndex, faLib>>

\* Mutant of FA_Check: the flag is set as soon as the check has passed.
FA_Check_FlagEarly ==
    /\ ~exited
    /\ UNCHANGED <<avars, lvars>>
    /\ faPc = "check"
    /\ IF initialized
         THEN /\ faPc' = "idle"
              /\ faResult' = "AlreadyInitialized"
              /\ UNCHANGED initialized
         ELSE /\ faPc' = "load"
              /\ faResult' = "none"
              /\ initialized' = TRUE
    /\ UNCHANGED <<module_handle, target_functions_address, osvars, exports,
                   tvars, exited, okSeen, faSlots0, faLoads, faIndex, faLib>>

\* if self.initialized { return Err(AlreadyInitialized) }
FA_Check ==
    /\ ~exited
    /\ UNCHANGED <<avars, lvars>>
    /\ faPc = "check"
    /\ IF initialized
         THEN /\ faPc' = "idle"
              /\ faResult' = "AlreadyInitialized"
         ELSE /\ faPc' = "load"
              /\ faResult' = "none"
    /\ UNCHANGED <<dvars, osvars, exports, tvars, exited, okSeen,
                   faSlots0, faLoads, faIndex, faLib>>

\* let lib = ForeignLibrary::new(self.lib_name)?;
FA_LoadOk ==
    /\ ~exited
    /\ UNCHANGED <<avars, lvars>>
    /\ faPc = "load"
    /\ \E b \in Bases :
         /\ load_library(b)
         /\ faLib' = LoadedBase(b)
    /\ faLoads' = faLoads + 1
    /\ faIndex' = 1
    /\ faPc' = "resolve"
    /\ UNCHANGED <<dvars, exports, tvars, exited, okSeen, faSlots0,
                   faResult>>

FA_LoadErr ==
    /\ ~exited
    /\ UNCHANGED <<avars, lvars>>
    /\ faPc = "load"
    /\ faLoads' = faLoads + 1
    /\ faResult' = "LoadError"
    /\ faPc' = "idle"
    /\ UNCHANGED <<dvars, osvars, exports, tvars, exited, okSeen, faSlots0,
                   faIndex, faLib>>

\* Mutant of FA_Resolve: every slot is resolved from the first name.
FA_Resolve_FirstName ==
    /\ ~exited
    /\ UNCHANGED <<avars, lvars>>
    /\ faPc = "resolve"
    /\ faIndex <= NSlots
    /\ LET addr == get_proc_address(faLib, target_function_names[1])
       IN IF addr # 0
            THEN /\ target_functions_address' =
                      [target_functions_address EXCEPT ![faIndex] = addr]
                 /\ faIndex' = faIndex + 1
                 /\ UNCHANGED <<osvars, faPc, faResult, faLib>>
            ELSE /\ free_library
                 /\ faResult' = "SymbolNotFound"
                 /\ faPc' = "idle"
                 /\ UNCHANGED <<target_functions_address, faIndex, faLib>>
    /\ UNCHANGED <<initialized, module_handle, exports, tvars, exited,
                   okSeen, faSlots0, faLoads>>

\* Mutant of FA_Resolve: a name that does not resolve is skipped, its slot
\* left as it is.
FA_Resolve_SkipMissing ==
    /\ ~exited
    /\ UNCHANGED <<avars, lvars>>
    /\ faPc = "resolve"
    /\ faIndex <= NSlots
    /\ LET addr == get_proc_address(faLib, target_function_names[faIndex])
       IN IF addr # 0
            THEN target_functions_address' =
                      [target_functions_address EXCEPT ![faIndex] = addr]
            ELSE UNCHANGED target_functions_address
    /\ faIndex' = faIndex + 1
    /\ UNCHANGED <<osvars, faPc, faResult, faLib>>
    /\ UNCHANGED <<initialized, module_handle, exports, tvars, exited,
                   okSeen, faSlots0, faLoads>>

\* One turn of the loop: resolve slot faIndex and store it; on Err the `?`
\* returns and the local `lib` is dropped (Drop for ForeignLibrary).
FA_Resolve ==
    /\ ~exited
    /\ UNCHANGED <<avars, lvars>>
    /\ faPc = "resolve"
    /\ faIndex <= NSlots
    /\ LET addr == get_proc_address(faLib, target_function_names[faIndex])
       IN IF addr # 0
            THEN /\ target_functions_address' =
                      [target_functions_address EXCEPT ![faIndex] = addr]
                 /\ faIndex' = faIndex + 1
                 /\ UNCHANGED <<osvars, faPc, faResult, faLib>>
            ELSE /\ free_library
                 /\ faResult' = "SymbolNotFound"
                 /\ faPc' = "idle"
                 /\ UNCHANGED <<target_functions_address, faIndex, faLib>>
    /\ UNCHANGED <<initialized, module_handle, exports, tvars, exited,
                   okSeen, faSlots0, faLoads>>

\* Mutant of FA_Finish: Ok is returned without setting initialized.
FA_Finish_NoFlag ==
    /\ ~exited
    /\ UNCHANGED <<avars, lvars>>
    /\ faPc = "resolve"
    /\ faIndex > NSlots
    /\ into_raw
    /\ module_handle' = faLib
    /\ faResult' = "Ok"
    /\ okSeen' = TRUE
    /\ faPc' = "idle"
    /\ UNCHANGED <<initialized, target_functions_address, exports, tvars,
                   exited, faSlots0, faLoads, faIndex, faLib>>

\* self.module_handle = lib.into_raw(); self.initialized = true; Ok(())
FA_Finish ==
    /\ ~exited
    /\ UNCHANGED <<avars, lvars>>
    /\ faPc = "resolve"
    /\ faIndex > NSlots
    /\ into_raw
    /\ module_handle' = faLib
    /\ initialized' = TRUE
    /\ faResult' = "Ok"
    /\ okSeen' = TRUE
    /\ faPc' = "idle"
    /\ UNCHANGED <<target_functions_address, exports, tvars, exited,
                   faSlots0, faLoads, faIndex, faLib>>

\* ------------------------------------------------- generated entry point
\* define_function!($lib, $name, $index, $export_name = $proc ...): one
\* entry point for the first pair at $index, the rest at $index + 1.
RECURSIVE define_function_SameIndex(_, _)
\* Mutant of define_function: the recursion does not advance $index.
define_function_SameIndex(index, procs) ==
    IF procs = <<>> THEN <<>>
    ELSE <<[index |-> index, export_name |-> Head(procs).export_name,
            proc |-> Head(procs).proc]>>
           \o define_function_SameIndex(index, Tail(procs))

RECURSIVE define_function(_, _)
define_function(index, procs) ==
    IF procs = <<>> THEN <<>>
    ELSE <<[index |-> index, export_name |-> Head(procs).export_name,
            proc |-> Head(procs).proc]>>
           \o define_function(index + 1, Tail(procs))

\* forward_dll!: define_function!($lib, $name, 0, $($proc)*) over the same
\* $proc list target_function_names is made of; `$proc` alone stands for
\* `$proc = $proc`.
EntryPoints ==
    define_function(0, [i \in Slots |->
        [export_name |-> target_function_names[i],
         proc |-> target_function_names[i]]])
\* The slot the i-th entry point reads ($index counts from 0, Slots from 1)
\* and the name its default_jumper looks up.
EntrySlot(i) == EntryPoints[i].index + 1
EntryProc(i) == EntryPoints[i].proc

\* Thread t calls the i-th entry point: the asm operand
\* in("rcx") $name.target_functions_address[$index] reads the slot, and
\* default_jumper returns it when it is not 0.
T_Invoke(t, i) ==
    /\ ~exited
    /\ UNCHANGED <<avars, lvars>>
    /\ tPc[t] = "idle"
    /\ tIndex' = [tIndex EXCEPT ![t] = i]
    /\ tArg' = [tArg EXCEPT ![t] = target_functions_address[EntrySlot(i)]]
    /\ tLib' = [tLib EXCEPT ![t] = 0]
    /\ IF target_functions_address[EntrySlot(i)] # 0
         THEN /\ tRax' = [tRax EXCEPT ![t] = target_functions_address[EntrySlot(i)]]
              /\ tPc' = [tPc EXCEPT ![t] = "jmp"]
         ELSE /\ tRax' = [tRax EXCEPT ![t] = 0]
              /\ tPc' = [tPc EXCEPT ![t] = "load"]
    /\ UNCHANGED <<dvars, osvars, exports, faPc, faIndex, faLib, faResult,
                   exited, okSeen, faSlots0, faLoads>>

\* Mutant of JumperResult: a failed lookup is not diverted to exit_fn.
JumperResult_NoFallback(lib, i) ==
    get_proc_address(lib, EntryProc(i))

\* Mutant of JumperResult: every entry point looks up the first name.
JumperResult_WrongName(lib, i) ==
    LET addr == get_proc_address(lib, EntryProc(1))
    IN IF addr # 0 THEN addr ELSE exit_fn

\* default_jumper, slot unresolved:
\*   match ForeignLibrary::new($lib) {
\*       Ok(lib) => match lib.get_proc_address(stringify!($proc)) {
\*           Ok(addr) => return addr as usize,
\*           Err(err) => eprintln!(..) }
\*       Err(err) => eprintln!(..) }
\*   exit_fn as usize
\* The value default_jumper returns once the library is loaded at lib.
JumperResult(lib, i) ==
    LET addr == get_proc_address(lib, EntryProc(i))
    IN IF addr # 0 THEN addr ELSE exit_fn

\* Mutant of T_LoadOk: the resolved address is also stored in the slot.
T_LoadOk_Storing(t) ==
    /\ ~exited
    /\ UNCHANGED <<avars, lvars>>
    /\ tPc[t] = "load"
    /\ \E b \in Bases :
         /\ load_library(b)
         /\ tLib' = [tLib EXCEPT ![t] = LoadedBase(b)]
         /\ tRax' = [tRax EXCEPT ![t] = JumperResult(LoadedBase(b), tIndex[t])]
         /\ target_functions_address' =
              [target_functions_address EXCEPT
                 ![EntrySlot(tIndex[t])] = get_proc_address(LoadedBase(b),
                                              EntryProc(tIndex[t]))]
    /\ tPc' = [tPc EXCEPT ![t] = "drop"]
    /\ UNCHANGED <<initialized, module_handle, exports, faPc, faIndex, faLib,
                   faResult, exited, okSeen, faSlots0, faLoads, tIndex, tArg>>

T_LoadOk(t) ==
    /\ ~exited
    /\ UNCHANGED <<avars, lvars>>
    /\ tPc[t] = "load"
    /\ \E b \in Bases :
         /\ load_library(b)
         /\ tLib' = [tLib EXCEPT ![t] = LoadedBase(b)]
         /\ tRax' = [tRax EXCEPT ![t] = JumperResult(LoadedBase(b), tIndex[t])]
    /\ tPc' = [tPc EXCEPT ![t] = "drop"]
    /\ UNCHANGED <<dvars, exports, faPc, faIndex, faLib, faResult, exited,
                   okSeen, faSlots0, faLoads, tIndex, tArg>>

T_LoadErr(t) ==
    /\ ~exited
    /\ UNCHANGED <<avars, lvars>>
    /\ tPc[t] = "load"
    /\ tRax' = [tRax EXCEPT ![t] = exit_fn]
    /\ tPc' = [tPc EXCEPT ![t] = "jmp"]
    /\ UNCHANGED <<dvars, osvars, exports, faPc, faIndex, faLib, faResult,
                   exited, okSeen, faSlots0, faLoads,
                   tIndex, tArg, tLib>>

\* default_jumper returns: the local `lib` goes out of scope, Drop for
\* ForeignLibrary calls free_library.
T_Drop(t) ==
    /\ ~exited
    /\ UNCHANGED <<avars, lvars>>
    /\ tPc[t] = "drop"
    /\ free_library
    /\ tPc' = [tPc EXCEPT ![t] = "jmp"]
    /\ UNCHANGED <<dvars, exports, faPc, faIndex, faLib, faResult, exited,
                   okSeen, faSlots0, faLoads,
                   tIndex, tArg, tLib, tRax>>

\* jmp rax: control leaves the entry point, for the target function (which
\* returns to the original caller, so the thread may call again) or for
\* exit_fn, which ends the process.
T_Jmp(t) ==
    /\ ~exited
    /\ UNCHANGED <<avars, lvars>>
    /\ tPc[t] = "jmp"
    /\ IF tRax[t] = exit_fn
         THEN /\ tPc' = [tPc EXCEPT ![t] = "exit"]
              /\ exited' = TRUE
              /\ UNCHANGED <<tIndex, tArg, tLib, tRax>>
         ELSE /\ tPc' = [tPc EXCEPT ![t] = "idle"]
              /\ tIndex' = [tIndex EXCEPT ![t] = 0]
              /\ tArg' = [tArg EXCEPT ![t] = 0]
              /\ tLib' = [tLib EXCEPT ![t] = 0]
              /\ tRax' = [tRax EXCEPT ![t] = 0]
              /\ UNCHANGED exited
    /\ UNCHANGED <<dvars, osvars, exports, faPc, faIndex, faLib, faResult,
                   okSeen, faSlots0, faLoads>>

Next ==
    \/ FA_Call
    \/ FA_Check
    \/ FA_LoadOk
    \/ FA_LoadErr
    \/ FA_Resolve
    \/ FA_Finish
    \/ \E t \in Threads, i \in Slots : T_Invoke(t, i)
    \/ \E t \in Threads : T_LoadOk(t)
    \/ \E t \in Threads : T_LoadErr(t)
    \/ \E t \in Threads : T_Drop(t)
    \/ \E t \in Threads : T_Jmp(t)

Spec == Init /\ [][Next]_vars

\* ------------------------------------- the entry point, by instruction
\* Register and stack values are 0..MaxVal.
MaxVal == 1
\* Words of free stack below the stack pointer at the entry.
StackWords == 13
\* Words the caller owns at and above it: return address, stack arguments.
CallerWords == 2

Val == 0..MaxVal
\* What a callee leaves in a register or stack word it is free to change.
Junk == MaxVal + 1
\* Address of default_jumper; return address pushed by the call to it.
default_jumper == MaxVal + 2
RetIntoEntry == MaxVal + 3

\* Mutant of Prog64: the registers are popped in the order they were pushed.
Prog64_PopSameOrder ==
    << <<"push", "rcx">>, <<"push", "rdx">>, <<"push", "r8">>,
       <<"push", "r9">>, <<"push", "r10">>, <<"push", "r11">>,
       <<"operands", "">>,
       <<"sub", 40>>, <<"call", "rax">>, <<"add", 40>>,
       <<"pop", "rcx">>, <<"pop", "rdx">>, <<"pop", "r8">>,
       <<"pop", "r9">>, <<"pop", "r10">>, <<"pop", "r11">>,
       <<"jmp", "rax">> >>

\* #[cfg(target_arch = "x86_64")]: three asm! blocks; the operands of the
\* second one (in("rax"), in("rcx")) are loaded before it. 40 is 28h.
Prog64 ==
    << <<"push", "rcx">>, <<"push", "rdx">>, <<"push", "r8">>,
       <<"push", "r9">>, <<"push", "r10">>, <<"push", "r11">>,
       <<"operands", "">>,
       <<"sub", 40>>, <<"call", "rax">>, <<"add", 40>>,
       <<"pop", "r11">>, <<"pop", "r10">>, <<"pop", "r9">>,
       <<"pop", "r8">>, <<"pop", "rdx">>, <<"pop", "rcx">>,
       <<"jmp", "rax">> >>

\* #[cfg(target_arch = "x86")]: one asm! block, operands loaded before it.
Prog32 ==
    << <<"operands", "">>,
       <<"push", "ecx">>, <<"call", "eax">>, <<"add", 4>>,
       <<"jmp", "eax">> >>

Prog(a) == IF a = "x86_64" THEN Prog64 ELSE Prog32
WordBytes(a) == IF a = "x86_64" THEN 8 ELSE 4
ArchRegs(a) ==
    IF a = "x86_64" THEN {"rax", "rcx", "rdx", "r8", "r9", "r10", "r11"}
                    ELSE {"eax", "ecx", "edx"}
\* in("rax") / in("eax") default_jumper; in("rcx") / in("ecx") the slot.
Acc(a) == IF a = "x86_64" THEN "rax" ELSE "eax"
Cx(a) == IF a = "x86_64" THEN "rcx" ELSE "ecx"
\* Registers a callee need not preserve (all those modelled but the result).
Volatile(a) == ArchRegs(a) \ {Acc(a)}
\* Stack words above its return address a callee may overwrite: the home
\* space of four register arguments (x86_64), its one stack argument (x86).
CalleeOwned(a, s) == IF a = "x86_64" THEN s..(s + 3) ELSE {s}

MemAddrs == 0..(StackWords + CallerWords - 1)
Instr == Prog(arch)[ip]
Running == arch # "none" /\ ip \in 1..Len(Prog(arch))
Transferred == arch # "none" /\ ip = Len(Prog(arch)) + 1

AsmInit ==
    /\ arch \in {"x86_64", "x86"}
    /\ ip = 1
    /\ regs \in {r \in [ArchRegs(arch) -> Val] : r[Acc(arch)] = 0}
    /\ sp = StackWords
    /\ \E c \in Val : mem = [a \in MemAddrs |-> IF a >= StackWords THEN c ELSE 0]
    /\ regs0 = regs
    /\ sp0 = sp
    /\ mem0 = mem
    /\ pushed = [r \in ArchRegs(arch) |-> Junk]
    /\ resolverRet = 0

\* The forwarder is idle; every slot holds the same value, read by the
\* operand in("rcx") $name.target_functions_address[$index].
InitAsm ==
    /\ FwdStart
    /\ \E v \in Val : target_functions_address = [i \in Slots |-> v]
    /\ exports = Slots
    /\ FwdRest
    /\ LinkIdle
    /\ AsmInit

ExecPush ==
    /\ Running
    /\ Instr[1] = "push"
    /\ sp' = sp - 1
    /\ mem' = [mem EXCEPT ![sp - 1] = regs[Instr[2]]]
    /\ pushed' = [pushed EXCEPT ![Instr[2]] = regs[Instr[2]]]
    /\ ip' = ip + 1
    /\ UNCHANGED <<fvars, arch, regs, regs0, sp0, mem0, resolverRet>>

ExecPop ==
    /\ Running
    /\ Instr[1] = "pop"
    /\ regs' = [regs EXCEPT ![Instr[2]] = mem[sp]]
    /\ sp' = sp + 1
    /\ ip' = ip + 1
    /\ UNCHANGED <<fvars, arch, mem, regs0, sp0, mem0, pushed, resolverRet>>

ExecSub ==
    /\ Running
    /\ Instr[1] = "sub"
    /\ sp' = sp - (Instr[2] \div WordBytes(arch))
    /\ ip' = ip + 1
    /\ UNCHANGED <<fvars, arch, regs, mem, regs0, sp0, mem0, pushed,
                   resolverRet>>

ExecAdd ==
    /\ Running
    /\ Instr[1] = "add"
    /\ sp' = sp + (Instr[2] \div WordBytes(arch))
    /\ ip' = ip + 1
    /\ UNCHANGED <<fvars, arch, regs, mem, regs0, sp0, mem0, pushed,
                   resolverRet>>

ExecOperands ==
    /\ Running
    /\ Instr[1] = "operands"
    /\ regs' = [regs EXCEPT ![Acc(arch)] = default_jumper,
                            ![Cx(arch)] = target_functions_address[1]]
    /\ ip' = ip + 1
    /\ UNCHANGED <<fvars, arch, sp, mem, regs0, sp0, mem0, pushed,
                   resolverRet>>

\* The argument default_jumper sees: rcx (x86_64), the word above its
\* return address (x86).
JumperArg == IF arch = "x86_64" THEN regs["rcx"] ELSE mem[sp]

\* call rax / call eax, to default_jumper, and its return: the call pushes
\* the return address and ret pops it; the callee returns its argument
\* when that is not 0 and an address it resolved otherwise, and leaves
\* anything in the volatile registers R, in the stack words it owns and in
\* its own frame below the return address.
ExecCall ==
    /\ Running
    /\ Instr[1] = "call"
    /\ regs[Instr[2]] = default_jumper
    /\ \E R \in SUBSET Volatile(arch), home \in BOOLEAN, lazy \in Val \ {0} :
         LET ret == IF JumperArg # 0 THEN JumperArg ELSE lazy
         IN /\ regs' = [r \in ArchRegs(arch) |->
                          IF r = Acc(arch) THEN ret
                          ELSE IF r \in R THEN Junk ELSE regs[r]]
            /\ mem' = [a \in MemAddrs |->
                          IF a = sp - 1 THEN RetIntoEntry
                          ELSE IF a < sp - 1 THEN Junk
                          ELSE IF home /\ a \in CalleeOwned(arch, sp) THEN Junk
                          ELSE mem[a]]
            /\ resolverRet' = ret
    /\ ip' = ip + 1
    /\ UNCHANGED <<fvars, arch, sp, regs0, sp0, mem0, pushed>>

\* Mutant of ExecJmp: the transfer pushes a return address.
ExecJmp_AsCall ==
    /\ Running
    /\ Instr[1] = "jmp"
    /\ sp' = sp - 1
    /\ mem' = [mem EXCEPT ![sp - 1] = RetIntoEntry]
    /\ ip' = ip + 1
    /\ UNCHANGED <<fvars, arch, regs, regs0, sp0, mem0, pushed, resolverRet>>

\* jmp rax / jmp eax: control leaves the entry point; nothing is pushed.
\* (ExecJmp_AsCall is its mutant: the transfer is a call.)
ExecJmp ==
    /\ Running
    /\ Instr[1] = "jmp"
    /\ ip' = ip + 1
    /\ UNCHANGED <<fvars, arch, regs, sp, mem, regs0, sp0, mem0, pushed,
                   resolverRet>>

\* The saved volatile registers of the x86_64 sequence.
Saved64 == {"rcx", "rdx", "r8", "r9", "r10", "r11"}
AtJmp == Running /\ Instr[1] = "jmp"

NextAsm ==
    \/ ExecPush
    \/ ExecPop
    \/ ExecSub
    \/ ExecAdd
    \/ ExecOperands
    \/ ExecCall
    \/ ExecJmp

SpecAsm == InitAsm /\ [][NextAsm]_vars

\* ------------------------------------------------- build-time generation
\* Longest export table read from a file or passed by the build script.
MaxExports == 3
Ordinals == 1..MaxExports
\* Export names found in a table.
ExportNames == {"Foo", "Bar"}
\* ExportItem.name: Option<String>, None as <<>> and Some(n) as <<n>>.
OptNames == {<<>>} \cup {<<n>> : n \in ExportNames}
\* ExportItem { ordinal, name }
ExportItem == [ordinal : Ordinals, name : OptNames]
\* Export tables: the ordinals of a PE export table are pairwise distinct.
ExportLists ==
    {l \in UNION {[1..n -> ExportItem] : n \in 0..MaxExports} :
        \A j, k \in DOMAIN l : j # k => l[j].ordinal # l[k].ordinal}
\* What forward_dll_with_exports receives, &[(u32, &str)]: every name given.
NamedLists == {l \in ExportLists : \A k \in DOMAIN l : l[k].name # <<>>}

\* dll_path, split where the code splits it: the last four characters.
Exts == {".dll", ".DLL", ".drv"}
DllPaths == [stem : {"target"}, ext : Exts]
\* str::to_ascii_lowercase on the last four characters.
to_ascii_lowercase(e) == IF e = ".DLL" THEN ".dll" ELSE e
SUFFIX == ".dll"
dll_path_without_ext(p) ==
    IF to_ascii_lowercase(p.ext) = SUFFIX THEN p.stem ELSE p.stem \o p.ext

\* The file at dev_dll_path as object::FileKind::parse and PeFile::parse see
\* it: unreadable, not an object file, an object file of another kind, a
\* PE32 / PE64 image (dir: it has an export directory, table: its entries),
\* or a PE image that does not parse.
NonPeKinds == {"unreadable", "garbage", "Elf64", "PeCorrupt"}
PeKinds == {"Pe32", "Pe64"}
Files ==
    [kind : NonPeKinds, dir : {FALSE}, table : {<<>>}]
      \cup [kind : PeKinds, dir : {FALSE}, table : {<<>>}]
      \cup [kind : PeKinds, dir : {TRUE}, table : ExportLists]

Err(msg) == "Err: " \o msg
\* get_dll_export_names: the error, or the list of ExportItem.
get_dll_export_names(f) ==
    IF f.kind = "unreadable" THEN [err |-> Err("Failed to read file"), list |-> <<>>]
    ELSE IF f.kind = "garbage" THEN [err |-> Err("Invalid file: "), list |-> <<>>]
    ELSE IF f.kind \notin PeKinds /\ f.kind # "PeCorrupt"
              THEN [err |-> Err("Invalid file"), list |-> <<>>]
    ELSE IF f.kind = "PeCorrupt" THEN [err |-> Err("Invalid pe file: "), list |-> <<>>]
    ELSE IF ~f.dir THEN [err |-> Err("No export table"), list |-> <<>>]
    ELSE [err |-> "", list |-> f.table]

\* format!("forward_dll_anonymous_{anonymous_name_id}")
fn_name(id) == "forward_dll_anonymous_" \o ToString(id)

\* Mutant of ExportDirective: the anonymous export is forwarded by the
\* placeholder name instead of by #ordinal.
ExportDirective_ByPlaceholder(item, base, id) ==
    IF item.name # <<>>
    THEN "cargo:rustc-link-arg=/EXPORT:" \o item.name[1] \o "=" \o base \o "."
            \o item.name[1] \o ",@" \o ToString(item.ordinal)
    ELSE "cargo:rustc-link-arg=/EXPORT:" \o fn_name(id) \o "=" \o base \o "."
            \o fn_name(id) \o ",@" \o ToString(item.ordinal)

\* The line println! writes for one export; id is anonymous_name_id after
\* its increment.
ExportDirective(item, base, id) ==
    IF item.name # <<>>
    THEN "cargo:rustc-link-arg=/EXPORT:" \o item.name[1] \o "=" \o base \o "."
            \o item.name[1] \o ",@" \o ToString(item.ordinal)
    ELSE "cargo:rustc-link-arg=/EXPORT:" \o fn_name(id) \o "=" \o base \o ".#"
            \o ToString(item.ordinal) \o ",@" \o ToString(item.ordinal)

\* One line of exports_def, without its line feed.
DefLine(item, amap) ==
    IF item.name # <<>>
    THEN "  " \o item.name[1] \o " @" \o ToString(item.ordinal)
    ELSE "  " \o amap[item.ordinal] \o " @" \o ToString(item.ordinal) \o " NONAME"

\* HashMap::insert
MapInsert(m, k, v) == [x \in DOMAIN m \cup {k} |-> IF x = k THEN v ELSE m[x]]

\* get_tmp_dir(): the directory OUT_DIR names.
out_dir == "OUT_DIR"
version_lib_path == out_dir \o "/version_proxy.lib"

LkQuiet == UNCHANGED <<rvars, avars, api, dll_path, devFile>>

\* Mutant of forward_dll_with_dev_path: the reader's error is dropped and
\* forward_dll_impl runs on an empty list.
forward_dll_with_dev_path_DropErr ==
    /\ lkPc = "call"
    /\ api \in {"forward_dll", "forward_dll_with_dev_path"}
    /\ LET r == get_dll_export_names(devFile) IN
         /\ exportsArg' = r.list
         /\ lkPc' = "loop"
         /\ lkIdx' = 1
         /\ UNCHANGED lkResult
    /\ anonymous_map' = <<>>
    /\ anonymous_name_id' = 0
    /\ UNCHANGED <<stdout, exports_def, filesWritten, generated>>
    /\ LkQuiet

\* forward_dll(dll_path) is forward_dll_with_dev_path(dll_path, dll_path);
\* forward_dll_with_dev_path reads the export table, returns the reader's
\* error if there is one and enters forward_dll_impl otherwise.
forward_dll_with_dev_path ==
    /\ lkPc = "call"
    /\ api \in {"forward_dll", "forward_dll_with_dev_path"}
    /\ LET r == get_dll_export_names(devFile) IN
         IF r.err # ""
         THEN /\ lkResult' = r.err
              /\ lkPc' = "done"
              /\ UNCHANGED <<exportsArg, lkIdx>>
         ELSE /\ exportsArg' = r.list
              /\ lkPc' = "loop"
              /\ lkIdx' = 1
              /\ UNCHANGED lkResult
    /\ anonymous_map' = <<>>
    /\ anonymous_name_id' = 0
    /\ UNCHANGED <<stdout, exports_def, filesWritten, generated>>
    /\ LkQuiet

\* forward_dll_with_exports: every pair becomes an ExportItem with
\* Some(name) (exportsArg holds them so already), then forward_dll_impl.
forward_dll_with_exports ==
    /\ lkPc = "call"
    /\ api = "forward_dll_with_exports"
    /\ lkPc' = "loop"
    /\ lkIdx' = 1
    /\ anonymous_map' = <<>>
    /\ anonymous_name_id' = 0
    /\ UNCHANGED <<exportsArg, lkResult, stdout, exports_def, filesWritten,
                   generated>>
    /\ LkQuiet

\* Mutant of ExportLoop: anonymous_name_id is not incremented.
ExportLoop_NoIncrement ==
    /\ lkPc = "loop"
    /\ lkIdx <= Len(exportsArg)
    /\ LET item == exportsArg[lkIdx]
           base == dll_path_without_ext(dll_path)
       IN IF item.name # <<>>
          THEN /\ stdout' = Append(stdout, ExportDirective(item, base, 0))
               /\ UNCHANGED <<anonymous_name_id, anonymous_map>>
          ELSE /\ UNCHANGED anonymous_name_id
               /\ stdout' = Append(stdout,
                       ExportDirective(item, base, anonymous_name_id))
               /\ anonymous_map' = MapInsert(anonymous_map, item.ordinal,
                                             fn_name(anonymous_name_id))
    /\ lkIdx' = lkIdx + 1
    /\ UNCHANGED <<lkPc, exportsArg, lkResult, exports_def, filesWritten,
                   generated>>
    /\ LkQuiet

\* forward_dll_impl, one iteration of the loop over exports: print the
\* /EXPORT line; an export without a name gets a placeholder first.
ExportLoop ==
    /\ lkPc = "loop"
    /\ lkIdx <= Len(exportsArg)
    /\ LET item == exportsArg[lkIdx]
           base == dll_path_without_ext(dll_path)
       IN IF item.name # <<>>
          THEN /\ stdout' = Append(stdout, ExportDirective(item, base, 0))
               /\ UNCHANGED <<anonymous_name_id, anonymous_map>>
          ELSE /\ anonymous_name_id' = anonymous_name_id + 1
               /\ stdout' = Append(stdout,
                       ExportDirective(item, base, anonymous_name_id + 1))
               /\ anonymous_map' = MapInsert(anonymous_map, item.ordinal,
                                             fn_name(anonymous_name_id + 1))
    /\ lkIdx' = lkIdx + 1
    /\ UNCHANGED <<lkPc, exportsArg, lkResult, exports_def, filesWritten,
                   generated>>
    /\ LkQuiet

\* Mutant of BuildDef: an empty export list is refused.
BuildDef_RejectEmpty ==
    /\ lkPc = "loop"
    /\ lkIdx > Len(exportsArg)
    /\ IF exportsArg = <<>>
       THEN /\ lkResult' = Err("NoExportTable")
            /\ lkPc' = "done"
            /\ UNCHANGED exports_def
       ELSE /\ exports_def' = <<"LIBRARY version", "EXPORTS">>
                \o [k \in 1..Len(exportsArg) |-> DefLine(exportsArg[k], anonymous_map)]
            /\ lkPc' = "parse"
            /\ UNCHANGED lkResult
    /\ UNCHANGED <<lkIdx, exportsArg, anonymous_map, anonymous_name_id,
                   stdout, filesWritten, generated>>
    /\ LkQuiet

\* forward_dll_impl after the loop: exports_def is the header followed by
\* one line per export.
BuildDef ==
    /\ lkPc = "loop"
    /\ lkIdx > Len(exportsArg)
    /\ exports_def' = <<"LIBRARY version", "EXPORTS">>
          \o [k \in 1..Len(exportsArg) |-> DefLine(exportsArg[k], anonymous_map)]
    /\ lkPc' = "parse"
    /\ UNCHANGED <<lkIdx, exportsArg, anonymous_map, anonymous_name_id,
                   stdout, filesWritten, lkResult, generated>>
    /\ LkQuiet

\* ModuleDef::parse(&exports_def, machine): it succeeds, or its error is
\* returned.
ParseDef ==
    /\ lkPc = "parse"
    /\ \E ok \in BOOLEAN :
         IF ok THEN lkPc' = "write" /\ UNCHANGED lkResult
         ELSE lkPc' = "done" /\ lkResult' = Err("ImportLibrary::new error: ")
    /\ UNCHANGED <<lkIdx, exportsArg, anonymous_map, anonymous_name_id,
                   stdout, exports_def, filesWritten, generated>>
    /\ LkQuiet

\* OpenOptions::open and ImportLibrary::write_to on version_proxy.lib:
\* the library of exports_def is written, or the error is returned (the file
\* exists, incomplete, when only the write failed).
WriteLib ==
    /\ lkPc = "write"
    /\ \E r \in {"ok", "open", "write"} :
         CASE r = "ok" ->
                /\ filesWritten' = filesWritten \cup
                      {[path |-> version_lib_path, content |-> exports_def]}
                /\ lkPc' = "search"
                /\ UNCHANGED lkResult
           [] r = "open" ->
                /\ lkResult' = Err("OpenOptions::open error: ")
                /\ lkPc' = "done"
                /\ UNCHANGED filesWritten
           [] r = "write" ->
                /\ filesWritten' = filesWritten \cup
                      {[path |-> version_lib_path, content |-> <<>>]}
                /\ lkResult' = Err("ImportLibrary::write_to error: ")
                /\ lkPc' = "done"
    /\ UNCHANGED <<lkIdx, exportsArg, anonymous_map, anonymous_name_id,
                   stdout, exports_def, generated>>
    /\ LkQuiet

\* The two closing println! and Ok(()).
EmitSearch ==
    /\ lkPc = "search"
    /\ stdout' = stdout \o <<"cargo:rustc-link-search=" \o out_dir,
                             "cargo:rustc-link-lib=version_proxy">>
    /\ lkResult' = "Ok"
    /\ lkPc' = "done"
    /\ UNCHANGED <<lkIdx, exportsArg, anonymous_map, anonymous_name_id,
                   exports_def, filesWritten, generated>>
    /\ LkQuiet

\* The derive crate's reader: the same errors, a missing name read as ""
\* (unwrap_or_default).
derive_get_dll_export_names(f) ==
    LET r == get_dll_export_names(f) IN
    [err |-> r.err,
     list |-> [k \in 1..Len(r.list) |->
                 [ordinal |-> r.list[k].ordinal,
                  name |-> IF r.list[k].name = <<>> THEN ""
                           ELSE r.list[k].name[1]]]]

\* generate_linker_args: the lines joined into ordinal_link_args.txt.
generate_linker_args(list) ==
    [k \in 1..Len(list) |->
        "/EXPORT:" \o list[k].name \o "=_" \o list[k].name \o ",@"
            \o ToString(list[k].ordinal)]

\* #[derive(ForwardModule)]: read the export table (a reader error panics),
\* with `ordinal` write ordinal_link_args.txt when its directory exists,
\* then generate the DllForwarder<export_count> static and one entry point
\* per export; format_ident! panics on an empty name.
derive_forward_module ==
    /\ lkPc = "call"
    /\ api \in {"derive", "derive_ordinal"}
    /\ LET r == derive_get_dll_export_names(devFile)
           has_ordinal == api = "derive_ordinal"
       IN IF r.err # ""
          THEN /\ lkResult' = "Panic: " \o r.err
               /\ UNCHANGED <<generated, filesWritten, exportsArg>>
          ELSE /\ exportsArg' = r.list
               /\ \E is_dir \in BOOLEAN :
                    filesWritten' =
                      IF has_ordinal /\ is_dir
                      THEN filesWritten \cup
                             {[path |-> "ordinal_link_args.txt",
                               content |-> generate_linker_args(r.list)]}
                      ELSE filesWritten
               /\ IF \E k \in DOMAIN r.list : r.list[k].name = ""
                  THEN /\ lkResult' = "Panic: Ident is not allowed to be empty"
                       /\ UNCHANGED generated
                  ELSE /\ lkResult' = "Ok"
                       /\ generated' =
                            [export_count |-> Len(r.list),
                             target_functions_address |->
                                 [k \in 1..Len(r.list) |-> 0],
                             target_function_names |->
                                 [k \in 1..Len(r.list) |-> r.list[k].name],
                             entries |-> define_function(0,
                                 [k \in 1..Len(r.list) |->
                                    [export_name |->
                                        IF has_ordinal
                                        THEN "_" \o r.list[k].name
                                        ELSE r.list[k].name,
                                     proc |-> r.list[k].name]])]
    /\ lkPc' = "done"
    /\ UNCHANGED <<lkIdx, anonymous_map, anonymous_name_id, stdout,
                   exports_def>>
    /\ LkQuiet

\* A build script calls one of the forward_dll functions, or the derive
\* macro is expanded, on some path and some file.
InitLink ==
    /\ FwdStart
    /\ FwdRest
    /\ target_functions_address = [i \in Slots |-> 0]
    /\ exports = {}
    /\ AsmIdle
    /\ api \in {"forward_dll", "forward_dll_with_dev_path",
                "forward_dll_with_exports", "derive", "derive_ordinal"}
    /\ dll_path \in DllPaths
    /\ IF api = "forward_dll_with_exports"
       THEN devFile = <<>> /\ exportsArg \in NamedLists
       ELSE devFile \in Files /\ exportsArg = <<>>
    /\ lkPc = "call"
    /\ lkIdx = 0
    /\ anonymous_map = <<>>
    /\ anonymous_name_id = 0
    /\ stdout = <<>>
    /\ exports_def = <<>>
    /\ filesWritten = {}
    /\ lkResult = "none"
    /\ generated = <<>>

NextLink ==
    \/ forward_dll_with_dev_path
    \/ forward_dll_with_exports
    \/ ExportLoop
    \/ BuildDef
    \/ ParseDef
    \/ WriteLib
    \/ EmitSearch
    \/ derive_forward_module

SpecLink == InitLink /\ [][NextLink]_vars

\* =============================================================== claims
\* The addresses resolving the name of slot i against the image can yield,
\* one per base the image has been mapped at.
ResolvedAt(B, i) == {get_proc_address(b, target_function_names[i]) : b \in B} \ {0}

\* C1: once a forward_all call has returned Ok, initialized stays true and
\* no slot, module_handle or flag changes whatever is called afterwards; a
\* later forward_all call returns AlreadyInitialized at its first statement
\* and neither loads the library nor changes the load count.
C1_OkThenAlreadyInitialized ==
    [][okSeen =>
         /\ initialized /\ initialized'
         /\ target_functions_address' = target_functions_address
         /\ module_handle' = module_handle
         /\ faPc' \in {"idle", "check"}
         /\ (faPc' # faPc => libRefs' = libRefs /\ faLoads' = 0)
         /\ (faPc = "check" /\ faPc' # "check"
               => faResult' = "AlreadyInitialized")]_vars

\* A second forward_all call has returned AlreadyInitialized and an entry
\* point has since read its resolved slot.
C1_Witness ==
    /\ okSeen
    /\ faPc = "idle"
    /\ faResult = "AlreadyInitialized"
    /\ \E t \in Threads : tPc[t] = "jmp" /\ tArg[t] # 0

\* C2: when forward_all has returned Ok, every slot i holds the address
\* that resolving target_function_names[i] against the image as it is
\* loaded yields, the call loaded the library exactly once, module_handle
\* is the handle that load returned, and initialized is true.
C2_OkResolvesEverySlot ==
    faResult = "Ok" =>
        /\ imageBase # 0
        /\ \A i \in Slots :
             /\ target_functions_address[i] # 0
             /\ target_functions_address[i] =
                  get_proc_address(imageBase, target_function_names[i])
        /\ faLoads = 1
        /\ module_handle = faLib
        /\ module_handle = imageBase
        /\ initialized

\* forward_all has returned Ok while an entry point that started its own
\* resolution earlier still holds a second reference.
C2_Witness ==
    /\ faResult = "Ok"
    /\ libRefs >= 2

\* C3: a forward_all call that failed returned at the first failing step
\* (the load, index 0, or the first slot k whose name the image lacks);
\* the slots below k hold the addresses resolved through the call's
\* handle, the slots from k on are as they were when the call began,
\* initialized is false and module_handle is still 0; and a forward_all
\* call made while no call has returned Ok passes the initialized check
\* and goes on to load the library.
FaFailed == faPc = "idle" /\ faResult \in {"LoadError", "SymbolNotFound"}

C3_FailureLeavesPrefix ==
    /\ [](FaFailed =>
            /\ ~initialized
            /\ module_handle = 0
            /\ faResult = "LoadError" => faIndex = 0
            /\ faResult = "SymbolNotFound" =>
                 /\ faIndex \in Slots
                 /\ target_function_names[faIndex] \notin exports
            /\ \A i \in Slots :
                 /\ i < faIndex =>
                      /\ target_function_names[i] \in exports
                      /\ target_functions_address[i] =
                           get_proc_address(faLib, target_function_names[i])
                 /\ i >= faIndex =>
                      target_functions_address[i] = faSlots0[i])
    /\ [][faPc = "check" /\ ~okSeen /\ faPc' # "check"
            => faPc' = "load" /\ faResult' # "AlreadyInitialized"]_vars

\* A retried call has failed at slot 2 again, after rewriting slot 1: the
\* slot already held an address when the call began.
C3_Witness ==
    /\ FaFailed
    /\ faResult = "SymbolNotFound"
    /\ faIndex = 2
    /\ faSlots0[1] # 0
    /\ target_functions_address[1] # 0

\* C4 as stated: when an entry point has lazily resolved its own symbol,
\* its slot holds the resolved address by the time control is transferred.
C4_LazyResolutionStoresSlot ==
    \A t \in Threads :
        (tPc[t] = "jmp" /\ tArg[t] = 0 /\ tRax[t] # exit_fn)
            => target_functions_address[tIndex[t]] = tRax[t]

\* C4 amended: no step of an entry point writes a slot; a lazy resolution
\* of an exported symbol leaves the resolved address in rax only, and an
\* invocation that finds its slot 0 goes on to load the library, however
\* many lazy resolutions came before.
C4_LazyResolutionLeavesSlot ==
    [][\A t \in Threads :
         tPc'[t] # tPc[t] =>
            /\ target_functions_address' = target_functions_address
            /\ (tPc[t] = "load" /\ tPc'[t] = "drop"
                  /\ target_function_names[tIndex[t]] \in exports)
                 => /\ imageBase' # 0
                    /\ tRax'[t] = get_proc_address(imageBase',
                                     target_function_names[tIndex[t]])
            /\ (tPc[t] = "idle" /\ target_functions_address[tIndex'[t]] = 0)
                 => tPc'[t] = "load"]_vars

\* forward_all never ran, an earlier lazy resolution has come and gone (the
\* image was mapped and is unmapped again), and an entry point invoked
\* afterwards is about to load the library once more.
C4_Witness ==
    /\ faPc = "idle"
    /\ faResult = "none"
    /\ basesSeen # {}
    /\ libRefs = 0
    /\ \E t \in Threads :
         /\ tPc[t] = "load"
         /\ target_function_names[tIndex[t]] \in exports
         /\ \A u \in Threads \ {t} : tPc[u] = "idle"

\* C5: an entry point about to execute jmp rax has in rax either exit_fn or
\* an address resolved for its own symbol, never 0; it is exit_fn whenever
\* its slot read 0 and the load or the symbol lookup failed; jumping to
\* exit_fn ends the process, and nothing runs after that.
C5_FailedResolutionExits ==
    /\ [](\A t \in Threads :
            tPc[t] = "jmp" =>
               /\ tRax[t] # 0
               /\ tRax[t] = exit_fn \/ tRax[t] \in ResolvedAt(Bases, tIndex[t])
               /\ (tArg[t] = 0
                     /\ (tLib[t] = 0
                           \/ target_function_names[tIndex[t]] \notin exports))
                    => tRax[t] = exit_fn)
    /\ [][/\ ~exited
          /\ \A t \in Threads :
               (tPc[t] = "jmp" /\ tRax[t] = exit_fn /\ tPc'[t] # "jmp")
                  => tPc'[t] = "exit" /\ exited']_vars

\* The library loaded, the symbol was missing, and the process has ended.
C5_Witness ==
    /\ exited
    /\ \E t \in Threads :
         /\ tPc[t] = "exit"
         /\ tArg[t] = 0
         /\ tLib[t] # 0

\* C6: while the image has only ever been mapped at one base, each slot
\* holds 0 or the one address of its symbol in that image, and every thread
\* whose load succeeded leaves the entry point of an exported symbol for
\* that same address, however the threads interleave.
C6_ConcurrentLazyConverges ==
    Cardinality(basesSeen) <= 1 =>
        \A i \in Slots :
            /\ Cardinality(ResolvedAt(basesSeen, i)) <= 1
            /\ target_functions_address[i] \in {0} \cup ResolvedAt(basesSeen, i)
            /\ \A t \in Threads :
                 (tPc[t] = "jmp" /\ tIndex[t] = i
                    /\ (tArg[t] # 0 \/ tLib[t] # 0)
                    /\ target_function_names[i] \in exports)
                   => tRax[t] \in ResolvedAt(basesSeen, i)

\* Two threads have lazily resolved the same unresolved slot and are both
\* about to jump.
C6_Witness ==
    /\ Cardinality(basesSeen) = 1
    /\ \E t, u \in Threads :
         /\ t # u
         /\ tPc[t] = "jmp" /\ tPc[u] = "jmp"
         /\ tIndex[t] = tIndex[u]
         /\ tArg[t] = 0 /\ tArg[u] = 0
         /\ tLib[t] # 0 /\ tLib[u] # 0
         /\ tRax[t] # exit_fn
         /\ target_functions_address[tIndex[t]] = 0

\* C7: after forward_all has returned Ok the forwarder always holds at
\* least one reference on the library, and module_handle is the handle of
\* the image as it is mapped.
C7_HandleNeverReleased ==
    okSeen =>
        /\ libRefs >= 1
        /\ module_handle # 0
        /\ module_handle = imageBase

\* A lazy resolution that overlapped forward_all has dropped its own
\* reference after forward_all returned Ok.
C7_Witness ==
    /\ okSeen
    /\ libRefs = 1
    /\ \E t \in Threads : tPc[t] = "jmp" /\ tArg[t] = 0 /\ tLib[t] # 0

\* C8 as stated: whenever an entry point is about to jump to a resolved
\* address, or a slot holds a resolved address, the forwarder holds at
\* least one reference on the library.
C8_ReferenceHeldWhileAddressInUse ==
    /\ \A t \in Threads :
         (tPc[t] = "jmp" /\ tRax[t] # exit_fn) => libRefs >= 1
    /\ \A i \in Slots :
         target_functions_address[i] # 0 => libRefs >= 1

\* C9: in the x86_64 sequence, at the final jmp rax each of rcx, rdx, r8,
\* r9, r10, r11 holds the value its push saved, which is the value it had at
\* the entry, and rax holds what default_jumper returned, whatever the call
\* left in the volatile registers and in the stack words the callee owns.
C9_SavedRegistersRestored ==
    (arch = "x86_64" /\ (AtJmp \/ Transferred)) =>
        /\ \A r \in Saved64 : regs[r] = pushed[r] /\ regs[r] = regs0[r]
        /\ regs["rax"] = resolverRet

\* The x86_64 sequence has reached the jmp after a call that overwrote its
\* home space, with rcx and r11 different at the entry.
C9_Witness ==
    /\ arch = "x86_64"
    /\ AtJmp
    /\ regs0["rcx"] # regs0["r11"]
    /\ mem[sp0 - 11] = Junk
    /\ resolverRet # 0

\* C10: in both sequences, at the final jmp and after it the stack pointer
\* is what it was at the entry and every stack word at and above it (return
\* address, stack arguments) is unchanged: the transfer pushes nothing, so
\* the target returns to the original caller.
C10_NetStackDisplacementZero ==
    (AtJmp \/ Transferred) =>
        /\ sp = sp0
        /\ \A a \in MemAddrs : a >= sp0 => mem[a] = mem0[a]

\* The x86 sequence has transferred control after a call that overwrote
\* the argument word it had pushed.
C10_Witness ==
    /\ arch = "x86"
    /\ Transferred
    /\ mem[sp0 - 1] = Junk
    /\ mem[sp0] # Junk

\* C12: the generator produces exactly N slots and N entry points, entry
\* point i reading slot i and looking up the name of export i, the name
\* slot i is resolved from; invoking the entry point of the i-th export
\* once forward_all has returned Ok hands control to the address of that
\* export's symbol in the loaded library, never to exit_fn.
C12_EntryPointReachesItsExport ==
    /\ [](/\ Len(EntryPoints) = NSlots
          /\ DOMAIN target_functions_address = Slots
          /\ \A i \in Slots :
               /\ EntryPoints[i].index = i - 1
               /\ EntryPoints[i].proc = target_function_names[i])
    /\ [][\A t \in Threads :
            initialized /\ tPc[t] = "idle" /\ tPc'[t] # "idle" =>
              LET i == tIndex'[t] IN
                /\ tPc'[t] = "jmp"
                /\ tRax'[t] = imageBase * AddrStride + i
                /\ i \in exports
                /\ tRax'[t] # exit_fn]_vars

C12_Witness ==
    /\ initialized
    /\ \E t \in Threads :
         /\ tPc[t] = "jmp"
         /\ tIndex[t] = NSlots
         /\ tArg[t] = target_functions_address[NSlots]
         /\ tRax[t] = imageBase * AddrStride + NSlots

\* This step stores into slot i (the same value again included).
WritesSlot(i) ==
    \/ target_functions_address'[i] # target_functions_address[i]
    \/ faPc = "resolve" /\ faIndex = i /\ faIndex' = i + 1

\* C13 as stated: each slot is written at most once, whatever sequence of
\* forward_all calls (failed and retried ones included) and entry point
\* invocations takes place: a slot that has been written is not written
\* again.
C13_SlotWrittenAtMostOnce ==
    [][\A i \in Slots : target_functions_address[i] # 0 => ~WritesSlot(i)]_vars

\* C13, amended: only forward_all writes slots, and only while initialized
\* is false; one call writes the slots in index order, each at most once
\* and one per step; after a forward_all has returned Ok no slot is written
\* any more; entry point invocations never write a slot. (A forward_all
\* called again after a failed one writes the slots the failed call had
\* filled a second time.)
C13_SlotWrittenOncePerCall ==
    [][/\ \A i \in Slots : WritesSlot(i) =>
             /\ ~initialized /\ ~okSeen
             /\ faPc = "resolve" /\ faIndex = i /\ faIndex' = i + 1
             /\ \A j \in Slots \ {i} :
                  target_functions_address'[j] = target_functions_address[j]
       /\ faPc = "resolve" /\ faPc' # "check" => faIndex' >= faIndex
       /\ \A t \in Threads : tPc'[t] # tPc[t] =>
             target_functions_address' = target_functions_address]_vars

\* A retried forward_all has stored slot 1 again, which the failed call
\* before it had filled.
C13_Witness == faPc = "resolve" /\ faIndex = 2 /\ faSlots0[1] # 0

\* C17: in every reachable state, initialized = true implies that every
\* slot is non-zero and module_handle is non-zero.
C17_InitializedMeansResolved ==
    initialized =>
        /\ \A i \in Slots : target_functions_address[i] # 0
        /\ module_handle # 0

C17_Witness == initialized /\ faResult = "Ok" /\ faLoads > 0

\* ---- build-time generation
\* forward_dll_impl has printed every /EXPORT line.
LoopDone == lkPc \in {"parse", "write", "search", "done"} /\ lkIdx > 0
\* The number of exports without a name among the first k of list l.
AnonRank(l, k) == Cardinality({j \in 1..k : l[j].name = <<>>})
\* The export list of the example: Foo -> 1, Bar -> 2, no name -> 3.
ExampleExports ==
    <<[ordinal |-> 1, name |-> <<"Foo">>], [ordinal |-> 2, name |-> <<"Bar">>],
      [ordinal |-> 3, name |-> <<>>]>>
ExampleRun ==
    /\ LoopDone
    /\ exportsArg = ExampleExports
    /\ dll_path = [stem |-> "target", ext |-> ".dll"]

\* C11 as stated: forward_dll_impl emits one directive per export in list
\* order, /EXPORT:<name>=<base>.<name>,@<ordinal> for a named export and
\* /EXPORT:<placeholder>=<base>.#<ordinal>,@<ordinal>,NONAME for an anonymous
\* one, and the descriptor lists every export with its ordinal; for
\* {Foo -> 1, Bar -> 2, anonymous -> 3} the directives are
\* /EXPORT:Foo=target.Foo,@1, /EXPORT:Bar=target.Bar,@2,
\* /EXPORT:forward_anon_1=target.#3,@3,NONAME and the descriptor lines are
\* Foo@1, Bar@2, forward_anon_1@3 NONAME.
C11_DirectivesAsStated ==
    /\ LoopDone =>
         /\ Len(stdout) >= Len(exportsArg)
         /\ \A k \in 1..Len(exportsArg) :
              LET e == exportsArg[k]
                  o == ToString(e.ordinal)
                  b == dll_path_without_ext(dll_path)
              IN stdout[k] = "cargo:rustc-link-arg=" \o
                    (IF e.name # <<>>
                     THEN "/EXPORT:" \o e.name[1] \o "=" \o b \o "." \o e.name[1]
                             \o ",@" \o o
                     ELSE "/EXPORT:" \o anonymous_map[e.ordinal] \o "=" \o b
                             \o ".#" \o o \o ",@" \o o \o ",NONAME")
    /\ ExampleRun =>
         /\ SubSeq(stdout, 1, 3) =
              <<"cargo:rustc-link-arg=/EXPORT:Foo=target.Foo,@1",
                "cargo:rustc-link-arg=/EXPORT:Bar=target.Bar,@2",
                "cargo:rustc-link-arg=/EXPORT:forward_anon_1=target.#3,@3,NONAME">>
         /\ SubSeq(exports_def, 3, 5) =
              <<"Foo@1", "Bar@2", "forward_anon_1@3 NONAME">>

\* C11, amended: forward_dll_impl prints one cargo:rustc-link-arg line per
\* export in list order, /EXPORT:<name>=<base>.<name>,@<ordinal> for a named
\* export and /EXPORT:forward_dll_anonymous_<k>=<base>.#<ordinal>,@<ordinal>
\* (without NONAME) for the k-th anonymous one, <base> being dll_path less a
\* case-insensitive ".dll" ending; the definition text is "LIBRARY version",
\* "EXPORTS" and one line "  <name> @<ordinal>" or
\* "  forward_dll_anonymous_<k> @<ordinal> NONAME" per export in the same
\* order; a call returning Ok has written that definition's library and
\* printed the two closing lines.  For {Foo -> 1, Bar -> 2, anonymous -> 3}
\* and target.dll the lines are exactly those written below.
C11_DirectivesAsEmitted ==
    /\ lkPc = "loop" => Len(stdout) = lkIdx - 1
    /\ LoopDone =>
         /\ Len(stdout) = Len(exportsArg) + (IF lkResult = "Ok" THEN 2 ELSE 0)
         /\ \A k \in 1..Len(exportsArg) :
              LET e == exportsArg[k]
                  o == ToString(e.ordinal)
                  b == IF dll_path.ext \in {".dll", ".DLL"} THEN dll_path.stem
                       ELSE dll_path.stem \o dll_path.ext
                  ph == "forward_dll_anonymous_" \o ToString(AnonRank(exportsArg, k))
              IN /\ stdout[k] = "cargo:rustc-link-arg=" \o
                       (IF e.name # <<>>
                        THEN "/EXPORT:" \o e.name[1] \o "=" \o b \o "."
                                \o e.name[1] \o ",@" \o o
                        ELSE "/EXPORT:" \o ph \o "=" \o b \o ".#" \o o \o ",@" \o o)
                 /\ Len(exports_def) = Len(exportsArg) + 2
                 /\ exports_def[k + 2] =
                      (IF e.name # <<>>
                       THEN "  " \o e.name[1] \o " @" \o o
                       ELSE "  " \o ph \o " @" \o o \o " NONAME")
         /\ SubSeq(exports_def, 1, 2) = <<"LIBRARY version", "EXPORTS">>
         /\ lkResult = "Ok" =>
              /\ filesWritten =
                   {[path |-> "OUT_DIR/version_proxy.lib", content |-> exports_def]}
              /\ SubSeq(stdout, Len(exportsArg) + 1, Len(exportsArg) + 2) =
                   <<"cargo:rustc-link-search=OUT_DIR",
                     "cargo:rustc-link-lib=version_proxy">>
    /\ ExampleRun =>
         /\ SubSeq(stdout, 1, 3) =
              <<"cargo:rustc-link-arg=/EXPORT:Foo=target.Foo,@1",
                "cargo:rustc-link-arg=/EXPORT:Bar=target.Bar,@2",
                "cargo:rustc-link-arg=/EXPORT:forward_dll_anonymous_1=target.#3,@3">>
         /\ exports_def = <<"LIBRARY version", "EXPORTS", "  Foo @1",
                           "  Bar @2", "  forward_dll_anonymous_1 @3 NONAME">>

C11_Witness == ExampleRun /\ lkPc = "done" /\ lkResult = "Ok"

\* The call is made on an empty export list: passed by the build script,
\* or read from an export directory without entries.
EmptyCall ==
    /\ exportsArg = <<>>
    /\ \/ api = "forward_dll_with_exports"
       \/ api # "none" /\ devFile.kind \in PeKinds /\ devFile.dir
                      /\ devFile.table = <<>>
LinkApi ==
    api \in {"forward_dll", "forward_dll_with_dev_path", "forward_dll_with_exports"}

\* C14 as stated: building from an empty export list fails with
\* NoExportTable and produces no slot table, no linker directive and no
\* import library, in link-time mode and in the derive macro alike.
C14_EmptyListRejected ==
    EmptyCall /\ lkPc = "done" =>
        /\ lkResult \in {"Err: NoExportTable", "Err: No export table",
                         "Panic: Err: No export table"}
        /\ generated = <<>>
        /\ stdout = <<>>
        /\ filesWritten = {}

\* C14, amended: an empty export list is not an error. forward_dll_impl
\* prints no /EXPORT line, builds the definition text of the two header
\* lines alone and returns Ok, having written the import library and printed
\* the link-search and link-lib lines, unless parsing the definition or
\* opening or writing the library file fails; the derive macro generates a
\* DllForwarder<0> without names and without entry points.
C14_EmptyListAccepted ==
    EmptyCall =>
        /\ lkPc \in {"parse", "write", "search", "done"} /\ LinkApi =>
             exports_def = <<"LIBRARY version", "EXPORTS">>
        /\ lkPc = "done" /\ LinkApi =>
             /\ lkResult \in {"Ok", "Err: ImportLibrary::new error: ",
                              "Err: OpenOptions::open error: ",
                              "Err: ImportLibrary::write_to error: "}
             /\ lkResult = "Ok" =>
                  /\ stdout = <<"cargo:rustc-link-search=OUT_DIR",
                                "cargo:rustc-link-lib=version_proxy">>
                  /\ filesWritten =
                       {[path |-> "OUT_DIR/version_proxy.lib",
                         content |-> <<"LIBRARY version", "EXPORTS">>]}
             /\ lkResult # "Ok" => stdout = <<>>
        /\ lkPc = "done" /\ ~LinkApi =>
             /\ lkResult = "Ok"
             /\ generated = [export_count |-> 0,
                             target_functions_address |-> <<>>,
                             target_function_names |-> <<>>,
                             entries |-> <<>>]
             /\ stdout = <<>>
             /\ \A f \in filesWritten :
                  /\ api = "derive_ordinal"
                  /\ f = [path |-> "ordinal_link_args.txt", content |-> <<>>]

C14_Witness ==
    /\ EmptyCall
    /\ api = "forward_dll"
    /\ lkPc = "done"
    /\ lkResult = "Ok"
    /\ filesWritten # {}

\* C15: when the file is a PE image without export directory, or is not a
\* 32- or 64-bit PE image at all, the export reader returns an error, and
\* forward_dll / forward_dll_with_dev_path return that error without having
\* emitted a linker directive, a library-search directive or an
\* import-library file.
C15_ReaderErrorReturnedUnchanged ==
    /\ api \in {"forward_dll", "forward_dll_with_dev_path"}
    /\ devFile.kind \notin PeKinds \/ ~devFile.dir
    => /\ lkPc \in {"call", "done"}
       /\ stdout = <<>>
       /\ exports_def = <<>>
       /\ filesWritten = {}
       /\ lkPc = "done" =>
            /\ devFile.kind \in PeKinds => lkResult = "Err: No export table"
            /\ devFile.kind = "Elf64" => lkResult = "Err: Invalid file"
            /\ devFile.kind = "garbage" => lkResult = "Err: Invalid file: "
            /\ devFile.kind = "PeCorrupt" => lkResult = "Err: Invalid pe file: "
            /\ devFile.kind = "unreadable" => lkResult = "Err: Failed to read file"

C15_Witness ==
    /\ api = "forward_dll_with_dev_path"
    /\ lkPc = "done"
    /\ devFile.kind = "Pe64"
    /\ ~devFile.dir
    /\ lkResult = "Err: No export table"

\* The positions of the exports without a name.
AnonAt == {k \in DOMAIN exportsArg : exportsArg[k].name = <<>>}

\* C16: placeholder names are deterministic and pairwise distinct: the k-th
\* anonymous export gets the placeholder of the running counter's value k,
\* a named export gets none, and the descriptor line of an anonymous export
\* carries the placeholder its linker directive carries.
C16_PlaceholdersDistinct ==
    /\ LinkApi /\ lkPc = "loop" =>
         anonymous_name_id = AnonRank(exportsArg, lkIdx - 1)
    /\ LoopDone =>
         /\ anonymous_name_id = Cardinality(AnonAt)
         /\ DOMAIN anonymous_map = {exportsArg[k].ordinal : k \in AnonAt}
         /\ \A k \in AnonAt :
              LET o == exportsArg[k].ordinal
                  ph == anonymous_map[o]
              IN /\ ph = "forward_dll_anonymous_"
                           \o ToString(AnonRank(exportsArg, k))
                 /\ \A j \in AnonAt \ {k} :
                      anonymous_map[exportsArg[j].ordinal] # ph
                 /\ stdout[k] = "cargo:rustc-link-arg=/EXPORT:" \o ph \o "="
                        \o dll_path_without_ext(dll_path) \o ".#" \o ToString(o)
                        \o ",@" \o ToString(o)
                 /\ exports_def[k + 2] =
                        "  " \o ph \o " @" \o ToString(o) \o " NONAME"
         /\ \A k \in DOMAIN exportsArg \ AnonAt :
              LET n == exportsArg[k].name[1]
                  o == ToString(exportsArg[k].ordinal)
              IN /\ stdout[k] = "cargo:rustc-link-arg=/EXPORT:" \o n \o "="
                        \o dll_path_without_ext(dll_path) \o "." \o n \o ",@" \o o
                 /\ exports_def[k + 2] = "  " \o n \o " @" \o o

C16_Witness ==
    /\ LoopDone
    /\ lkResult = "Ok"
    /\ Cardinality(AnonAt) >= 2
    /\ \E k \in DOMAIN exportsArg : exportsArg[k].name # <<>>

====
